---- MODULE Spec2Model ----
(***************************************************************************)
(* A model of the MTProto Telegram service: the HTTP handlers of           *)
(* src/server.js (initializeMTProto, /api/health, /api/send-message,       *)
(* /api/auth, the signal handlers) and the MTProtoService class they       *)
(* drive (second, canonical variant, src/server.js lines 667-1123).        *)
(*                                                                         *)
(* JavaScript runs one task at a time and a task gives up the processor    *)
(* only at an await, so every action below is one run-to-completion        *)
(* segment of a handler: from the arrival of a request, or from the        *)
(* completion of the awaited call or timer, up to the next await.          *)
(* The transport library (mtproto.call) is the external collaborator: it   *)
(* answers every call with a result or an error nondeterministically.      *)
(***************************************************************************)
EXTENDS Integers, Sequences, FiniteSets, TLC

\* ------------------------------------------------------------------------
\* Bounds of the model
\* ------------------------------------------------------------------------

\* Number of HTTP requests that may be in flight at the same time (the
\* app.listen callback runs beside them).
NReq == 2

\* Total number of HTTP requests accepted during one behaviour of the whole
\* service.
MaxRequests == 1

\* Total number of POST /api/auth requests accepted during one behaviour of
\* the authentication handlers alone.
MaxAuthRequests == 2

\* Number of clock advances during one behaviour of the whole service.
MaxTicks == 1

\* Number of clock advances during one behaviour of the rate limiter alone.
MaxRateTicks == 2

\* Total number of POST /api/send-message requests accepted during one
\* behaviour of the concurrent senders.
MaxSends == 2

\* Longest message, in characters, whose typing hold is computed.
MaxLength == 200

\* The admitted calls a key's window holds at most when the session store
\* and cleanup() are exercised.
MaxStoreAdmits == 2

\* The calls of checkRateLimit made on a window that starts one short of
\* the ceiling: one to reach the ceiling, as many rejected ones as the
\* ceiling counts, and one more.
MaxAttempts == 32

\* ------------------------------------------------------------------------
\* Program constants
\* ------------------------------------------------------------------------

\* checkRateLimit: now - time < 3600000 (one hour, in milliseconds).
RateWindowMs == 3600000

\* checkRateLimit: recentRequests.length >= 30.
RateCeiling == 30

\* simulateTyping: message.length * 50 (milliseconds per character).
TypingMsPerChar == 50

\* simulateTyping: Math.random() * 1000, a draw in [0, 1000) milliseconds.
TypingVarianceMs == 1000

\* simulateTyping: Math.max(..., 1000) and Math.min(..., 5000).
MinTypingMs == 1000
MaxTypingMs == 5000

\* The clock advances by half a window at a time, so that an entry is
\* found strictly inside the window, then exactly one window old.
TickMs == RateWindowMs \div 2

\* ------------------------------------------------------------------------
\* Values
\* ------------------------------------------------------------------------

\* Recipient names as the handler receives them (req.body.target), each a
\* sequence of characters: "@a" and "A".
Targets == { <<"@", "a">>, <<"A">> }

\* String.prototype.replace('@', ''): the first "@" of the string, wherever
\* it stands, is removed; a string without "@" is returned as it is.
replaceAt(s) ==
    IF \E i \in 1..Len(s) : s[i] = "@"
    THEN LET i == CHOOSE i \in 1..Len(s) :
                     s[i] = "@" /\ \A j \in 1..(i - 1) : s[j] # "@"
         IN  SubSeq(s, 1, i - 1) \o SubSeq(s, i + 1, Len(s))
    ELSE s

\* Math.random() * 1000 in whole milliseconds: the two ends of [0, 1000),
\* the middle, and the least draw above 0.
Variances == { 0, 1, TypingVarianceMs \div 2, TypingVarianceMs - 1 }

\* The lengths of the messages whose typing hold is computed.
Lengths == 0..MaxLength

\* The keys of the rateLimits map: const cleanTarget = target.replace('@', '').
Keys == { replaceAt(t) : t \in Targets }


VARIABLES
    envOk,           \* TELEGRAM_API_ID, TELEGRAM_API_HASH and TELEGRAM_PHONE are set
    listening,       \* the app.listen callback has run
    exited,          \* process.exit was called by a signal handler
    now,             \* Date.now()
    mtprotoService,  \* the global: "null" or "instance"
    svc,             \* the fields of the MTProtoService instance
    req,             \* the handlers in flight, one per slot
    nRequests,       \* number of requests accepted so far
    got,             \* what the last get(key) on the session store returned
    authOk,          \* history: a probe or a sign-in call of the collaborator succeeded
    codeSent,        \* history: an auth.sendCode call of the collaborator succeeded
    constructed      \* history: number of MTProtoService objects constructed

vars == << envOk, listening, exited, now, mtprotoService, svc, req,
           nRequests, authOk, codeSent, constructed, got >>

\* ------------------------------------------------------------------------
\* MTProtoService: the rate limiter
\* ------------------------------------------------------------------------

\* this.rateLimits = new Map(): no key holds an entry.
EmptyRateLimits == [k \in Keys |-> << >>]

\* checkRateLimit with the timestamp also recorded when the call is rejected.
checkRateLimitRecordsRejection(rateLimits, userId, t) ==
    LET userLimits     == rateLimits[userId]
        recentRequests == SelectSeq(userLimits, LAMBDA time : t - time < RateWindowMs)
    IN  [ ok |-> Len(recentRequests) < RateCeiling,
          rateLimits |-> [rateLimits EXCEPT ![userId] = Append(recentRequests, t)] ]

\* checkRateLimit with the ceiling tested one entry too late (> for >=).
checkRateLimitLateCeiling(rateLimits, userId, t) ==
    LET userLimits     == rateLimits[userId]
        recentRequests == SelectSeq(userLimits, LAMBDA time : t - time < RateWindowMs)
    IN  IF Len(recentRequests) > RateCeiling
        THEN [ ok |-> FALSE, rateLimits |-> rateLimits ]
        ELSE [ ok |-> TRUE,
               rateLimits |-> [rateLimits EXCEPT ![userId] = Append(recentRequests, t)] ]

\* checkRateLimit keeping the entries that are exactly one window old
\* (<= for <).
checkRateLimitKeepsHourOld(rateLimits, userId, t) ==
    LET userLimits     == rateLimits[userId]
        recentRequests == SelectSeq(userLimits, LAMBDA time : t - time <= RateWindowMs)
    IN  IF Len(recentRequests) >= RateCeiling
        THEN [ ok |-> FALSE, rateLimits |-> rateLimits ]
        ELSE [ ok |-> TRUE,
               rateLimits |-> [rateLimits EXCEPT ![userId] = Append(recentRequests, t)] ]

\* checkRateLimit(userId) at Date.now() = t: the verdict and the map after
\* the call. rateLimits.get(userId) || [] is the key's sequence (empty when
\* the key is absent); only an accepted call stores the filtered sequence.
checkRateLimit(rateLimits, userId, t) ==
    LET userLimits     == rateLimits[userId]
        recentRequests == SelectSeq(userLimits, LAMBDA time : t - time < RateWindowMs)
    IN  IF Len(recentRequests) >= RateCeiling
        THEN [ ok |-> FALSE, rateLimits |-> rateLimits ]
        ELSE [ ok |-> TRUE,
               rateLimits |-> [rateLimits EXCEPT ![userId] = Append(recentRequests, t)] ]


\* ------------------------------------------------------------------------
\* Errors, results and responses
\* ------------------------------------------------------------------------

\* The machine-readable codes (error.error_message) the handlers look for,
\* each as the sequence of its "_"-separated parts.
AUTH_KEY_UNREGISTERED   == << "AUTH", "KEY", "UNREGISTERED" >>
PHONE_CODE_INVALID      == << "PHONE", "CODE", "INVALID" >>
PHONE_CODE_EXPIRED      == << "PHONE", "CODE", "EXPIRED" >>
SESSION_PASSWORD_NEEDED == << "SESSION", "PASSWORD", "NEEDED" >>
USERNAME_NOT_OCCUPIED   == << "USERNAME", "NOT", "OCCUPIED" >>
USER_BANNED             == << "USER", "BANNED", "IN", "CHANNEL" >>
FLOOD_WAIT_30           == << "FLOOD", "WAIT", "30" >>
FLOOD_WAIT_0            == << "FLOOD", "WAIT", "0" >>
FLOOD_WAIT_X            == << "FLOOD", "WAIT", "X" >>

\* A code none of the handlers looks for.
PEER_ID_INVALID         == << "PEER", "ID", "INVALID" >>

\* String.prototype.includes on codes: needle is a run of consecutive parts.
includes(s, needle) ==
    \E i \in 0..(Len(s) - Len(needle)) :
        SubSeq(s, i + 1, i + Len(needle)) = needle

\* parseInt of one part of a code: the number it spells, or NaN (-1 here).
parseInt(part) ==
    CASE part = "30" -> 30
      [] part = "0"  -> 0
      [] OTHER       -> -1

\* parseInt(error.error_message.split('_')[2]) || 60: NaN and 0 are falsy.
waitTime(error_message) ==
    LET n == IF Len(error_message) >= 3 THEN parseInt(error_message[3]) ELSE -1
    IN  IF n <= 0 THEN 60 ELSE n

\* What mtproto.call answers: a result, or an error carrying error_message.
OkOut(v)  == [ ok |-> TRUE,  error_message |-> << >>, value |-> v ]
ErrOut(c) == [ ok |-> FALSE, error_message |-> c,     value |-> "" ]

ProbeOutcomes   == { OkOut("self"), ErrOut(AUTH_KEY_UNREGISTERED), ErrOut(FLOOD_WAIT_30) }
SendCodeOutcomes == { OkOut("hash"), ErrOut(FLOOD_WAIT_30) }
SignInOutcomes  == { OkOut("user"), ErrOut(PHONE_CODE_INVALID), ErrOut(PHONE_CODE_EXPIRED),
                     ErrOut(SESSION_PASSWORD_NEEDED) }
ResolveOutcomes == { OkOut("user"), OkOut("nousers"), ErrOut(USERNAME_NOT_OCCUPIED),
                     ErrOut(FLOOD_WAIT_30) }
TypingOutcomes  == { OkOut("true"), ErrOut(FLOOD_WAIT_30) }
SendOutcomes    == { OkOut("msg"), ErrOut(FLOOD_WAIT_30), ErrOut(USER_BANNED),
                     ErrOut(AUTH_KEY_UNREGISTERED), ErrOut(PEER_ID_INVALID),
                     ErrOut(FLOOD_WAIT_0), ErrOut(FLOOD_WAIT_X) }

\* What a method of the service gives its caller: nothing yet, a value, or
\* a thrown error (error_message is empty for a plain Error).
NoRet        == [ kind |-> "none",   error_message |-> << >>, message |-> "", value |-> "" ]
Return(v)    == [ kind |-> "return", error_message |-> << >>, message |-> "", value |-> v ]
Throw(c, m)  == [ kind |-> "throw",  error_message |-> c,     message |-> m,  value |-> "" ]

\* What a handler answers: res.status(...).json(...).
NoResp == [ status |-> 0, body |-> "", retry_after |-> 0, authenticated |-> FALSE ]
Resp(st, b) == [ status |-> st, body |-> b, retry_after |-> 0, authenticated |-> FALSE ]

\* The catch block of POST /api/send-message.
SendErrorResponse(error) ==
    LET m == error.error_message
    IN  IF m # << >> /\ includes(m, << "FLOOD", "WAIT" >>)
        THEN [ Resp(429, "Telegram rate limit exceeded") EXCEPT !.retry_after = waitTime(m) ]
        ELSE IF m # << >> /\ includes(m, << "USER", "BANNED" >>)
        THEN Resp(403, "Account banned")
        ELSE IF m # << >> /\ includes(m, USERNAME_NOT_OCCUPIED)
        THEN Resp(404, "User not found")
        ELSE IF m # << >> /\ includes(m, AUTH_KEY_UNREGISTERED)
        THEN Resp(401, "Authentication required")
        ELSE Resp(500, "Failed to send message")

\* The catch block of POST /api/auth with the two-factor signal treated as
\* any other failure.
AuthErrorResponseNoTwoFactor(error) ==
    LET m == error.error_message
    IN  IF includes(m, PHONE_CODE_INVALID)
        THEN Resp(400, "Invalid verification code")
        ELSE IF includes(m, PHONE_CODE_EXPIRED)
        THEN Resp(400, "Verification code expired")
        ELSE IF includes(m, << "FLOOD", "WAIT" >>)
        THEN [ Resp(429, "Rate limit exceeded") EXCEPT !.retry_after = waitTime(m) ]
        ELSE Resp(500, "Authentication failed")

\* The catch block of POST /api/auth.
AuthErrorResponse(error) ==
    LET m == error.error_message
    IN  IF includes(m, PHONE_CODE_INVALID)
        THEN Resp(400, "Invalid verification code")
        ELSE IF includes(m, PHONE_CODE_EXPIRED)
        THEN Resp(400, "Verification code expired")
        ELSE IF includes(m, SESSION_PASSWORD_NEEDED)
        THEN Resp(200, "password_required")
        ELSE IF includes(m, << "FLOOD", "WAIT" >>)
        THEN [ Resp(429, "Rate limit exceeded") EXCEPT !.retry_after = waitTime(m) ]
        ELSE Resp(500, "Authentication failed")

\* The catch block of GET /api/health.
HealthErrorResponse(error) == Resp(503, "error")

\* The catch block of the handler that serves operation op.
ErrorResponse(op, error) ==
    CASE op = "send"    -> SendErrorResponse(error)
      [] op = "health"  -> HealthErrorResponse(error)
      [] op = "startup" -> NoResp
      [] OTHER          -> AuthErrorResponse(error)


\* ------------------------------------------------------------------------
\* MTProtoService: construction and the authentication methods
\* ------------------------------------------------------------------------

\* The identity profile: what getRandomDevice(), getRandomOS() and
\* getRandomAppVersion() can draw, two of the combinations.
Profile1 ==
    [ deviceModel |-> "Samsung Galaxy S21", systemVersion |-> "Android 12.0",
      appVersion |-> "8.0.0" ]

Profile2 ==
    [ deviceModel |-> "iPhone 14", systemVersion |-> "iOS 16.1",
      appVersion |-> "10.9.9" ]

Profiles == { Profile1, Profile2 }

\* The draws a call of initializeMTProto() can make: the constructor's, and
\* it runs only when there is no instance; otherwise nothing is drawn.
Draws(ms) == IF ms = "null" THEN Profiles ELSE { Profile1 }

\* The values of JavaScript the session store is handed, each with its
\* type: strings (the empty one among them), the number 0 and an object.
\* null is what get answers for nothing; undefined is what Map.get answers
\* for a key the map does not hold.
null == << "null" >>

undefined == << "undefined" >>

StoreValues ==
    { << "string", "authKey" >>, << "string", "" >>, << "number", "0" >>,
      << "object", "{}" >> }

\* ToBoolean(v) is false.
falsy(v) == v \in { null, undefined, << "string", "" >>, << "number", "0" >> }

\* a || b
OrElse(a, b) == IF falsy(a) THEN b ELSE a

StoreKeys == { "1authKey", "1serverSalt" }

\* new Map(): no key is held.
EmptyStorage == [ key \in StoreKeys |-> undefined ]

\* The storage object of createCustomStorage() on the map storage:
\* get(key), set(key, value), delete(key), clear(), and the number of
\* entries (length).
storageGet(storage, key) == OrElse(storage[key], null)

storageSet(storage, key, value) == [ storage EXCEPT ![key] = value ]

storageDelete(storage, key) == [ storage EXCEPT ![key] = undefined ]

storageClear(storage) == EmptyStorage

storageLength(storage) == Cardinality({ key \in StoreKeys : storage[key] # undefined })

\* No get(key) has been made yet.
NoGot == << "none" >>

\* The constructor: the identity profile is drawn (profile),
\* this.inMemoryStorage = new Map(), and its last statements are
\* this.isAuthenticated = false; this.lastActivity = Date.now();
\* this.rateLimits = new Map().
NewService(t, profile) ==
    [ isAuthenticated |-> FALSE, lastActivity |-> t, rateLimits |-> EmptyRateLimits,
      deviceModel |-> profile.deviceModel, systemVersion |-> profile.systemVersion,
      appVersion |-> profile.appVersion, inMemoryStorage |-> EmptyStorage ]

\* initialize(), from the answer o to users.getFullUser onwards.
initialize(s, o) ==
    IF o.ok
    THEN [ svc |-> [s EXCEPT !.isAuthenticated = TRUE], ret |-> Return(o.value) ]
    ELSE IF o.error_message = AUTH_KEY_UNREGISTERED
    THEN [ svc |-> [s EXCEPT !.isAuthenticated = FALSE],
           ret |-> Throw(<< >>, "Authentication required") ]
    ELSE [ svc |-> s, ret |-> Throw(o.error_message, "") ]

\* sendCode(phoneNumber), from the answer o to auth.sendCode onwards: the
\* result is handed back and no field of the service is written.
sendCode(s, o) ==
    IF o.ok
    THEN [ svc |-> s, ret |-> Return(o.value) ]
    ELSE [ svc |-> s, ret |-> Throw(o.error_message, "") ]

\* signIn() with the flag raised before the answer is looked at.
signInIgnoresFailure(s, o) ==
    [ svc |-> [s EXCEPT !.isAuthenticated = TRUE],
      ret |-> IF o.ok THEN Return(o.value) ELSE Throw(o.error_message, "") ]

\* signIn(phoneNumber, phoneCodeHash, phoneCode), from the answer o to
\* auth.signIn onwards.
signIn(s, o) ==
    IF o.ok
    THEN [ svc |-> [s EXCEPT !.isAuthenticated = TRUE], ret |-> Return(o.value) ]
    ELSE [ svc |-> s, ret |-> Throw(o.error_message, "") ]

\* v || 'Unknown' for a string v.
OrUnknown(v) == IF v = "" THEN "Unknown" ELSE v

\* getStatus(): the fields of the status object.
getStatus(s) ==
    [ authenticated   |-> s.isAuthenticated,
      last_activity   |-> s.lastActivity,
      device_model    |-> OrUnknown(s.deviceModel),
      app_version     |-> OrUnknown(s.appVersion),
      system_version  |-> OrUnknown(s.systemVersion),
      storage_entries |-> storageLength(s.inMemoryStorage) ]

\* The session state the service keeps, in the words of the state machine:
\* isAuthenticated is the only field that records it.
SessionState(s) == IF s.isAuthenticated THEN "AUTHENTICATED" ELSE "UNAUTHENTICATED"

\* The pending verification the service keeps: the constructor creates no
\* field for a phone or a phone_code_hash and no method writes one, so none.
PendingVerification(s) == << >>


\* ------------------------------------------------------------------------
\* The handlers in flight
\* ------------------------------------------------------------------------

\* Slot 0 is the app.listen callback, slots 1..NReq serve HTTP requests.
Slots == 0..NReq

\* The operations of the HTTP interface: GET /api/health, POST
\* /api/send-message and the three actions of POST /api/auth.
Ops == { "health", "send", "send_code", "sign_in", "check_auth" }

\* The collaborator has answered no call of the handler yet.
NoAnswer == ErrOut(<< "NONE" >>)

\* A free slot. op and pc say which handler runs and at which await it
\* waits; valid, target, simulateTyping and length (message.length) are the
\* request's inputs; typingDuration is the const of simulateTyping; calls
\* lists the collaborator calls the operation's service method has issued;
\* result is the const result of sendMessage; ret is what the try block of
\* the handler got; resp is the HTTP answer. Two fields are history: answer
\* is the collaborator's latest answer to the handler, sentAt the time at
\* which messages.sendMessage was answered with a result.
IdleReq ==
    [ op |-> "idle", pc |-> "idle", valid |-> TRUE, target |-> << >>,
      simulateTyping |-> FALSE, length |-> 0, typingDuration |-> 0,
      calls |-> << >>, result |-> "",
      ret |-> NoRet, resp |-> NoResp, answer |-> NoAnswer, sentAt |-> -1 ]

NewReq(op, valid, target, simulateTyping) ==
    [ IdleReq EXCEPT !.op = op, !.pc = "start", !.valid = valid, !.target = target,
                     !.simulateTyping = simulateTyping ]

\* The handler answers and ends.
Finish(q, ret, resp) == [ q EXCEPT !.pc = "done", !.ret = ret, !.resp = resp ]

\* An error reaches the catch block of the handler, which answers it.
Fail(q, error) == Finish(q, error, ErrorResponse(q.op, error))

\* await this.mtproto.call(method, ...): the call is issued and awaited at pc.
Call(q, method, pc) == [ q EXCEPT !.pc = pc, !.calls = Append(@, method) ]

\* ------------------------------------------------------------------------
\* MTProtoService.sendMessage
\* ------------------------------------------------------------------------

\* sendMessage resolving the recipient whatever the rate limiter says.
sendMessageEntryResolvesFirst(q, s, t) ==
    LET cleanTarget == replaceAt(q.target)
        adm         == checkRateLimit(s.rateLimits, cleanTarget, t)
    IN  [ svc |-> [s EXCEPT !.rateLimits = adm.rateLimits],
          q   |-> IF adm.ok
                  THEN Call(q, "contacts.resolveUsername", "resolving")
                  ELSE Fail(Call(q, "contacts.resolveUsername", "resolving"),
                            Throw(<< >>, "Rate limit exceeded")) ]

\* sendMessage storing a sequence filtered from a stale read of the key's
\* entries, one that misses the entry stored last.
sendMessageEntryStaleRead(q, s, t) ==
    LET cleanTarget == replaceAt(q.target)
        stale       == [s.rateLimits EXCEPT ![cleanTarget] =
                            SubSeq(@, 1, IF Len(@) = 0 THEN 0 ELSE Len(@) - 1)]
        adm         == checkRateLimit(stale, cleanTarget, t)
    IN  [ svc |-> [s EXCEPT !.rateLimits = adm.rateLimits],
          q   |-> IF adm.ok
                  THEN Call(q, "contacts.resolveUsername", "resolving")
                  ELSE Fail(q, Throw(<< >>, "Rate limit exceeded")) ]

\* sendMessage(target, message, options) up to its first await: the rate
\* limit is checked on the cleaned target; a denied call throws, an admitted
\* one goes on to resolveUsername(target) and its contacts.resolveUsername.
sendMessageEntry(q, s, t) ==
    LET cleanTarget == replaceAt(q.target)
        adm         == checkRateLimit(s.rateLimits, cleanTarget, t)
    IN  [ svc |-> [s EXCEPT !.rateLimits = adm.rateLimits],
          q   |-> IF adm.ok
                  THEN Call(q, "contacts.resolveUsername", "resolving")
                  ELSE Fail(q, Throw(<< >>, "Rate limit exceeded")) ]

\* Math.max and Math.min.
Max(a, b) == IF a >= b THEN a ELSE b
Min(a, b) == IF a <= b THEN a ELSE b

\* simulateTyping, first variant of the class: const typingDuration =
\* Math.min(message.length * 50 + Math.random() * 1000, 5000).
typingDurationFirst(length, variance) ==
    Min(length * TypingMsPerChar + variance, MaxTypingMs)

\* simulateTyping: baseTypingTime = message.length * 50; typingDuration =
\* Math.min(Math.max(baseTypingTime + variance, 1000), 5000).
typingDuration(length, variance) ==
    LET baseTypingTime == length * TypingMsPerChar
    IN  Min(Max(baseTypingTime + variance, MinTypingMs), MaxTypingMs)

\* sendMessage calling messages.sendMessage as soon as the recipient is
\* resolved, before the typing simulation and the pre-send delay.
sendMessageResolvedSendsFirst(q, o, d) ==
    IF ~o.ok THEN Fail(q, Throw(o.error_message, ""))
    ELSE IF o.value = "nousers" THEN Fail(q, Throw(<< >>, "User not found"))
    ELSE Call(q, "messages.sendMessage", "sending")

\* sendMessage going on to simulateTyping or to the pre-send sleep when
\* the users list is empty.
sendMessageResolvedIgnoresEmpty(q, o, d) ==
    IF ~o.ok THEN Fail(q, Throw(o.error_message, ""))
    ELSE IF q.simulateTyping
    THEN [ Call(q, "messages.setTyping typing", "typingSet") EXCEPT !.typingDuration = d ]
    ELSE [ q EXCEPT !.pc = "preSend" ]

\* resolveUsername and sendMessage from the answer o to
\* contacts.resolveUsername onwards: an error or an empty users list
\* throws; otherwise simulateTyping starts (options.simulateTyping !==
\* false), with d the typing duration it computes before its first call,
\* or the pre-send sleep does.
sendMessageResolved(q, o, d) ==
    IF ~o.ok THEN Fail(q, Throw(o.error_message, ""))
    ELSE IF o.value = "nousers" THEN Fail(q, Throw(<< >>, "User not found"))
    ELSE IF q.simulateTyping
    THEN [ Call(q, "messages.setTyping typing", "typingSet") EXCEPT !.typingDuration = d ]
    ELSE [ q EXCEPT !.pc = "preSend" ]

\* simulateTyping with an error of the first messages.setTyping rethrown.
typingSetAnsweredPropagates(q, o) ==
    IF o.ok THEN [ q EXCEPT !.pc = "typingHold" ] ELSE Fail(q, Throw(o.error_message, ""))

\* simulateTyping from the answer to the first messages.setTyping onwards:
\* an error is caught inside simulateTyping and sendMessage goes on.
typingSetAnswered(q, o) ==
    IF o.ok THEN [ q EXCEPT !.pc = "typingHold" ] ELSE [ q EXCEPT !.pc = "preSend" ]

\* simulateTyping after sleep(typingDuration): the indicator is cancelled.
typingHeld(q) == Call(q, "messages.setTyping cancel", "typingCancel")

\* simulateTyping from the answer to the second messages.setTyping onwards.
typingCancelAnswered(q, o) ==
    IF o.ok THEN [ q EXCEPT !.pc = "typingPause" ] ELSE [ q EXCEPT !.pc = "preSend" ]

\* sendMessage after sleep(preSendDelay): messages.sendMessage is called.
preSendSlept(q) == Call(q, "messages.sendMessage", "sending")

\* sendMessage sending once more after a first flood-wait error.
sendMessageAnsweredRetries(q, o) ==
    IF o.ok
    THEN [ q EXCEPT !.pc = "postSend", !.result = o.value ]
    ELSE IF includes(o.error_message, << "FLOOD", "WAIT" >>) /\ Len(q.calls) < 5
    THEN Call(q, "messages.sendMessage", "sending")
    ELSE Fail(q, Throw(o.error_message, ""))

\* sendMessage throwing a new Error in place of the collaborator's.
sendMessageAnsweredWraps(q, o) ==
    IF o.ok
    THEN [ q EXCEPT !.pc = "postSend", !.result = o.value ]
    ELSE Fail(q, Throw(<< >>, "Failed to send message"))

\* sendMessage from the answer o to messages.sendMessage onwards: the
\* result is kept for the return, an error is rethrown.
sendMessageAnswered(q, o) ==
    IF o.ok
    THEN [ q EXCEPT !.pc = "postSend", !.result = o.value ]
    ELSE Fail(q, Throw(o.error_message, ""))

\* sendMessage's end with last-activity left as it was.
sendMessageReturnKeepsActivity(q, s, t) ==
    [ svc |-> s,
      q   |-> Finish(q, Return(q.result), Resp(200, "success")) ]

\* sendMessage after sleep(postSendDelay): this.lastActivity = Date.now();
\* return result; the handler answers success with message_id.
sendMessageReturn(q, s, t) ==
    [ svc |-> [s EXCEPT !.lastActivity = t],
      q   |-> Finish(q, Return(q.result), Resp(200, "success")) ]


\* cleanup() clearing the rate limits only.
cleanupKeepsStorage(s) == [ s EXCEPT !.rateLimits = EmptyRateLimits ]

\* cleanup() signing the session out along with emptying its store.
cleanupSignsOut(s) ==
    [ s EXCEPT !.rateLimits = EmptyRateLimits, !.inMemoryStorage = EmptyStorage,
               !.isAuthenticated = FALSE ]

\* cleanup() dropping the identity profile as well.
cleanupForgetsProfile(s) ==
    [ s EXCEPT !.rateLimits = EmptyRateLimits, !.inMemoryStorage = EmptyStorage,
               !.deviceModel = "", !.systemVersion = "", !.appVersion = "" ]

\* cleanup() writing the last-activity field as well.
cleanupTouchesActivity(s) ==
    [ s EXCEPT !.rateLimits = EmptyRateLimits, !.inMemoryStorage = EmptyStorage,
               !.lastActivity = 0 ]

\* cleanup(): this.rateLimits.clear(); this.inMemoryStorage.clear(). Neither
\* call throws, and the catch around them would swallow a throw.
cleanup(s) ==
    [ s EXCEPT !.rateLimits = EmptyRateLimits, !.inMemoryStorage = EmptyStorage ]

\* ------------------------------------------------------------------------
\* The handlers of src/server.js
\* ------------------------------------------------------------------------

\* The handler of q.op from the return of initializeMTProto() up to its
\* next await, on the service s at time t.
HandlerBody(q, s, t) ==
    CASE q.op = "startup" ->
            [ svc |-> s, q |-> Finish(q, Return("service"), NoResp) ]
      [] q.op = "health" ->
            [ svc |-> s,
              q   |-> Finish(q, Return("status"),
                             [ Resp(200, "operational")
                                 EXCEPT !.authenticated = getStatus(s).authenticated ]) ]
      [] q.op = "check_auth" ->
            [ svc |-> s,
              q   |-> Finish(q, Return("status"),
                             [ Resp(200, "check_auth")
                                 EXCEPT !.authenticated = getStatus(s).authenticated ]) ]
      [] q.op = "send_code" ->
            [ svc |-> s,
              q   |-> IF q.valid
                      THEN Call(q, "auth.sendCode", "sendingCode")
                      ELSE Finish(q, NoRet, Resp(400, "Phone number required")) ]
      [] q.op = "sign_in" ->
            [ svc |-> s,
              q   |-> IF q.valid
                      THEN Call(q, "auth.signIn", "signingIn")
                      ELSE Finish(q, NoRet, Resp(400, "Missing required fields")) ]
      [] q.op = "send" -> sendMessageEntry(q, s, t)

\* initializeMTProto() constructing a service whenever the session is not
\* signed in, an instance existing or not.
initializeMTProtoUnlessSignedIn(q, ms, s, t, env, profile) ==
    IF ms = "null" \/ ~s.isAuthenticated
    THEN IF env
         THEN [ ms |-> "instance", new |-> 1, svc |-> NewService(t, profile),
                q |-> [ q EXCEPT !.pc = "probing" ] ]
         ELSE [ ms |-> ms, new |-> 0, svc |-> s,
                q |-> Fail(q, Throw(<< >>, "Missing required environment variables")) ]
    ELSE [ ms |-> ms, new |-> 0 ] @@ HandlerBody(q, s, t)

\* initializeMTProto() calling initialize() again on the instance whenever
\* the session is not signed in.
initializeMTProtoProbesAgain(q, ms, s, t, env, profile) ==
    IF ms = "null"
    THEN IF env
         THEN [ ms |-> "instance", new |-> 1, svc |-> NewService(t, profile),
                q |-> [ q EXCEPT !.pc = "probing" ] ]
         ELSE [ ms |-> ms, new |-> 0, svc |-> s,
                q |-> Fail(q, Throw(<< >>, "Missing required environment variables")) ]
    ELSE IF ~s.isAuthenticated
    THEN [ ms |-> ms, new |-> 0, svc |-> s, q |-> [ q EXCEPT !.pc = "probing" ] ]
    ELSE [ ms |-> ms, new |-> 0 ] @@ HandlerBody(q, s, t)

\* initializeMTProto() and what follows it in the handler of q.op, up to
\* the next await. With no instance yet the constructor runs (and throws
\* when the environment is incomplete), the global is assigned and
\* initialize() awaits users.getFullUser; with an instance the handler goes
\* on at once, whether or not that probe has been answered. new is the
\* number of objects the call has constructed.
initializeMTProto(q, ms, s, t, env, profile) ==
    IF ms = "null"
    THEN IF env
         THEN [ ms |-> "instance", new |-> 1, svc |-> NewService(t, profile),
                q |-> [ q EXCEPT !.pc = "probing" ] ]
         ELSE [ ms |-> ms, new |-> 0, svc |-> s,
                q |-> Fail(q, Throw(<< >>, "Missing required environment variables")) ]
    ELSE [ ms |-> ms, new |-> 0 ] @@ HandlerBody(q, s, t)

\* A handler from its first statement up to its first await. POST
\* /api/send-message validates its fields before initializeMTProto().
HandlerStart(q, ms, s, t, env, profile) ==
    IF q.op = "send" /\ ~q.valid
    THEN [ ms |-> ms, new |-> 0, svc |-> s,
           q |-> Finish(q, NoRet, Resp(400, "Missing required fields")) ]
    ELSE initializeMTProto(q, ms, s, t, env, profile)

\* initializeMTProto() from the answer o to the probe onwards: a throw of
\* initialize() is rethrown to the handler, a return lets the handler go on.
ProbeAnswered(q, s, t, o) ==
    LET i == initialize(s, o)
    IN  IF i.ret.kind = "throw"
        THEN [ svc |-> i.svc, q |-> Fail(q, i.ret) ]
        ELSE HandlerBody(q, i.svc, t)

\* POST /api/auth send_code from the answer to auth.sendCode onwards.
SendCodeAnswered(q, s, o) ==
    LET c == sendCode(s, o)
    IN  [ svc |-> c.svc,
          q   |-> IF c.ret.kind = "throw"
                  THEN Fail(q, c.ret)
                  ELSE Finish(q, c.ret, Resp(200, "Code sent to phone")) ]

\* POST /api/auth sign_in from the answer to auth.signIn onwards.
SignInAnswered(q, s, o) ==
    LET c == signIn(s, o)
    IN  [ svc |-> c.svc,
          q   |-> IF c.ret.kind = "throw"
                  THEN Fail(q, c.ret)
                  ELSE Finish(q, c.ret, Resp(200, "Authentication successful")) ]


\* ------------------------------------------------------------------------
\* The state machine
\* ------------------------------------------------------------------------

\* The process after the module has been loaded: no instance, nothing in
\* flight. The environment is complete or not, for the process's life.
Init ==
    /\ envOk \in BOOLEAN
    /\ listening = FALSE
    /\ exited = FALSE
    /\ now = 0
    /\ mtprotoService = "null"
    /\ svc = NewService(0, Profile1)
    /\ req = [r \in Slots |-> IdleReq]
    /\ nRequests = 0
    /\ authOk = FALSE
    /\ codeSent = FALSE
    /\ constructed = 0
    /\ got = NoGot

\* app.listen's callback: initializeMTProto().catch(...), the constructor
\* drawing one of profiles.
Listen(profiles) ==
    /\ ~exited /\ ~listening
    /\ listening' = TRUE
    /\ \E profile \in profiles :
       LET res == HandlerStart(NewReq("startup", TRUE, << >>, FALSE),
                               mtprotoService, svc, now, envOk, profile)
       IN  /\ mtprotoService' = res.ms
           /\ svc' = res.svc
           /\ req' = [req EXCEPT ![0] = res.q]
           /\ constructed' = constructed + res.new
    /\ UNCHANGED << envOk, exited, now, nRequests, authOk, codeSent, got >>

\* The inputs of a request for operation op. The message of a send is one
\* of the longest; its length bears on the typing hold only.
Inputs(op) ==
    CASE op = "send" ->
            { [ NewReq(op, TRUE, t, st) EXCEPT !.length = MaxLength ] :
                  t \in Targets, st \in BOOLEAN }
            \cup { NewReq(op, FALSE, << >>, TRUE) }
      [] op \in { "send_code", "sign_in" } ->
            { NewReq(op, v, << >>, FALSE) : v \in BOOLEAN }
      [] OTHER -> { NewReq(op, TRUE, << >>, FALSE) }

\* An HTTP request for one of the operations ops arrives, the max-th at the
\* latest, and its handler runs up to its first await. The slots are alike:
\* the request takes the first free one.
Request(r, ops, max) ==
    /\ ~exited /\ listening
    /\ req[r].pc = "idle"
    /\ \A r2 \in 1..(r - 1) : req[r2].pc # "idle"
    /\ nRequests < max
    /\ \E op \in ops : \E q \in Inputs(op) : \E profile \in Draws(mtprotoService) :
          LET res == HandlerStart(q, mtprotoService, svc, now, envOk, profile)
          IN  /\ mtprotoService' = res.ms
              /\ svc' = res.svc
              /\ req' = [req EXCEPT ![r] = res.q]
              /\ constructed' = constructed + res.new
    /\ nRequests' = nRequests + 1
    /\ UNCHANGED << envOk, listening, exited, now, authOk, codeSent, got >>

\* users.getFullUser is answered.
ProbeReturns(r) ==
    /\ ~exited
    /\ req[r].pc = "probing"
    /\ \E o \in ProbeOutcomes :
          LET res == ProbeAnswered(req[r], svc, now, o)
          IN  /\ svc' = res.svc
              /\ req' = [req EXCEPT ![r] = [res.q EXCEPT !.answer = o]]
              /\ authOk' = (authOk \/ o.ok)
    /\ UNCHANGED << envOk, listening, exited, now, mtprotoService, nRequests, codeSent, constructed, got >>

\* auth.sendCode is answered.
SendCodeReturns(r) ==
    /\ ~exited
    /\ req[r].pc = "sendingCode"
    /\ \E o \in SendCodeOutcomes :
          LET res == SendCodeAnswered(req[r], svc, o)
          IN  /\ svc' = res.svc
              /\ req' = [req EXCEPT ![r] = [res.q EXCEPT !.answer = o]]
              /\ codeSent' = (codeSent \/ o.ok)
    /\ UNCHANGED << envOk, listening, exited, now, mtprotoService, nRequests,
                    authOk, constructed, got >>

\* auth.signIn is answered.
SignInReturns(r) ==
    /\ ~exited
    /\ req[r].pc = "signingIn"
    /\ \E o \in SignInOutcomes :
          LET res == SignInAnswered(req[r], svc, o)
          IN  /\ svc' = res.svc
              /\ req' = [req EXCEPT ![r] = [res.q EXCEPT !.answer = o]]
              /\ authOk' = (authOk \/ o.ok)
    /\ UNCHANGED << envOk, listening, exited, now, mtprotoService, nRequests,
                    codeSent, constructed, got >>

\* A step of sendMessage that takes the key's latest timestamp back when
\* the send ends with an error.
SendStepGivesBack(r, pc, q) ==
    /\ ~exited
    /\ req[r].pc = pc
    /\ req' = [req EXCEPT ![r] = q]
    /\ svc' = IF q.pc = "done" /\ q.ret.kind = "throw"
              THEN [ svc EXCEPT !.rateLimits[replaceAt(q.target)] =
                                    SubSeq(@, 1, Len(@) - 1) ]
              ELSE svc
    /\ UNCHANGED << envOk, listening, exited, now, mtprotoService, nRequests,
                    authOk, codeSent, constructed, got >>

\* A step of sendMessage that writes no field of the service: slot r goes
\* from pc to the record q.
SendStep(r, pc, q) ==
    /\ ~exited
    /\ req[r].pc = pc
    /\ req' = [req EXCEPT ![r] = q]
    /\ UNCHANGED << envOk, listening, exited, now, mtprotoService, svc, nRequests,
                    authOk, codeSent, constructed, got >>

\* contacts.resolveUsername is answered.
ResolveReturns(r) ==
    \E o \in ResolveOutcomes :
      \E d \in { typingDuration(req[r].length, variance) : variance \in Variances } :
        SendStep(r, "resolving", [ sendMessageResolved(req[r], o, d) EXCEPT !.answer = o ])

\* The first messages.setTyping is answered.
TypingSetReturns(r) ==
    \E o \in TypingOutcomes :
        SendStep(r, "typingSet", [ typingSetAnswered(req[r], o) EXCEPT !.answer = o ])

\* sleep(typingDuration) is over.
TypingHoldDone(r) == SendStep(r, "typingHold", typingHeld(req[r]))

\* The second messages.setTyping is answered.
TypingCancelReturns(r) ==
    \E o \in TypingOutcomes :
        SendStep(r, "typingCancel", [ typingCancelAnswered(req[r], o) EXCEPT !.answer = o ])

\* sleep(getRandomDelay(200, 800)) at the end of simulateTyping is over.
TypingPauseDone(r) == SendStep(r, "typingPause", [ req[r] EXCEPT !.pc = "preSend" ])

\* sleep(preSendDelay) is over.
PreSendDone(r) == SendStep(r, "preSend", preSendSlept(req[r]))

\* messages.sendMessage is answered.
SendReturns(r) ==
    \E o \in SendOutcomes :
        SendStep(r, "sending",
                 [ sendMessageAnswered(req[r], o)
                     EXCEPT !.answer = o, !.sentAt = IF o.ok THEN now ELSE -1 ])

\* sleep(postSendDelay) is over.
PostSendDone(r) ==
    /\ ~exited
    /\ req[r].pc = "postSend"
    /\ LET res == sendMessageReturn(req[r], svc, now)
       IN  /\ svc' = res.svc
           /\ req' = [req EXCEPT ![r] = res.q]
    /\ UNCHANGED << envOk, listening, exited, now, mtprotoService, nRequests,
                    authOk, codeSent, constructed, got >>

\* The answer has been delivered; the slot serves the next request.
Recycle(r) ==
    /\ ~exited
    /\ r # 0
    /\ req[r].pc = "done"
    /\ req' = [req EXCEPT ![r] = IdleReq]
    /\ UNCHANGED << envOk, listening, exited, now, mtprotoService, svc, nRequests,
                    authOk, codeSent, constructed, got >>

\* Time passes.
Tick ==
    /\ ~exited
    /\ now < MaxTicks * TickMs
    /\ now' = now + TickMs
    /\ UNCHANGED << envOk, listening, exited, mtprotoService, svc, req, nRequests,
                    authOk, codeSent, constructed, got >>

\* SIGTERM or SIGINT: cleanup() on the instance, if any, then process.exit(0).
Shutdown ==
    /\ ~exited
    /\ exited' = TRUE
    /\ svc' = IF mtprotoService = "instance" THEN cleanup(svc) ELSE svc
    /\ UNCHANGED << envOk, listening, now, mtprotoService, req, nRequests,
                    authOk, codeSent, constructed, got >>

\* The process with its requests served side by side. No step but
\* getStatus() reads the identity profile: the process is followed for the
\* first draw here, and for every draw in SpecProfile.
Next ==
    \/ Listen({ Profile1 })
    \/ \E r \in Slots \ {0} : Request(r, Ops, MaxRequests)
    \/ \E r \in Slots : ProbeReturns(r)
    \/ \E r \in Slots : SendCodeReturns(r)
    \/ \E r \in Slots : SignInReturns(r)
    \/ \E r \in Slots : ResolveReturns(r)
    \/ \E r \in Slots : TypingSetReturns(r)
    \/ \E r \in Slots : TypingHoldDone(r)
    \/ \E r \in Slots : TypingCancelReturns(r)
    \/ \E r \in Slots : TypingPauseDone(r)
    \/ \E r \in Slots : PreSendDone(r)
    \/ \E r \in Slots : SendReturns(r)
    \/ \E r \in Slots : PostSendDone(r)
    \/ \E r \in Slots : Recycle(r)
    \/ Tick
    \/ Shutdown

Spec == Init /\ [][Next]_vars


\* ------------------------------------------------------------------------
\* The authentication handlers alone: POST /api/auth and the probe
\* ------------------------------------------------------------------------

AuthOps == { "send_code", "sign_in", "check_auth" }

NextAuth ==
    \/ Listen({ Profile1 })
    \/ \E r \in Slots \ {0} : Request(r, AuthOps, MaxAuthRequests)
    \/ \E r \in Slots : ProbeReturns(r)
    \/ \E r \in Slots : SendCodeReturns(r)
    \/ \E r \in Slots : SignInReturns(r)
    \/ \E r \in Slots : Recycle(r)
    \/ Tick
    \/ Shutdown

SpecAuth == Init /\ [][NextAuth]_vars

\* ------------------------------------------------------------------------
\* The rate limiter alone: checkRateLimit on a constructed service
\* ------------------------------------------------------------------------

\* A service constructed at time 0 whose probe was answered "not signed in".
InitRate ==
    /\ envOk = TRUE
    /\ listening = TRUE
    /\ exited = FALSE
    /\ now = 0
    /\ mtprotoService = "instance"
    /\ svc = NewService(0, Profile1)
    /\ req = [r \in Slots |-> IdleReq]
    /\ nRequests = 0
    /\ authOk = FALSE
    /\ codeSent = FALSE
    /\ constructed = 1
    /\ got = NoGot

\* checkRateLimit(userId) is called at Date.now() = now.
RateAdmit(userId) ==
    /\ svc' = [svc EXCEPT !.rateLimits = checkRateLimit(svc.rateLimits, userId, now).rateLimits]
    /\ UNCHANGED << envOk, listening, exited, now, mtprotoService, req, nRequests,
                    authOk, codeSent, constructed, got >>

\* Time passes between two calls.
RateTick ==
    /\ now < MaxRateTicks * TickMs
    /\ now' = now + TickMs
    /\ UNCHANGED << envOk, listening, exited, mtprotoService, svc, req, nRequests,
                    authOk, codeSent, constructed, got >>

NextRate ==
    \/ \E userId \in Keys : RateAdmit(userId)
    \/ RateTick

SpecRate == InitRate /\ [][NextRate]_vars


\* ------------------------------------------------------------------------
\* POST /api/send-message on a service that has been sending for a while
\* ------------------------------------------------------------------------

\* n calls admitted for one key at time 0.
Admitted(n) == [i \in 1..n |-> 0]

\* The service some time after start-up: constructed at time 0, its probe
\* answered one way or the other, and each key's window empty, one short
\* of the ceiling or at the ceiling (SpecRate reaches each of these maps).
InitWarm ==
    /\ envOk = TRUE
    /\ listening = TRUE
    /\ exited = FALSE
    /\ now = 0
    /\ mtprotoService = "instance"
    /\ \E o \in ProbeOutcomes :
       \E limits \in [Keys -> { Admitted(0), Admitted(RateCeiling - 1), Admitted(RateCeiling) }] :
          LET res == ProbeAnswered([ NewReq("startup", TRUE, << >>, FALSE) EXCEPT !.pc = "probing" ],
                                   NewService(0, Profile1), 0, o)
          IN  /\ svc = [res.svc EXCEPT !.rateLimits = limits]
              /\ req = [r \in Slots |-> IF r = 0 THEN [res.q EXCEPT !.answer = o]
                                                ELSE IdleReq]
              /\ authOk = o.ok
    /\ nRequests = 0
    /\ codeSent = FALSE
    /\ constructed = 1
    /\ got = NoGot

SendOps == { "send" }

NextWarm ==
    \/ \E r \in Slots \ {0} : Request(r, SendOps, MaxRequests)
    \/ \E r \in Slots : ResolveReturns(r)
    \/ \E r \in Slots : TypingSetReturns(r)
    \/ \E r \in Slots : TypingHoldDone(r)
    \/ \E r \in Slots : TypingCancelReturns(r)
    \/ \E r \in Slots : TypingPauseDone(r)
    \/ \E r \in Slots : PreSendDone(r)
    \/ \E r \in Slots : SendReturns(r)
    \/ \E r \in Slots : PostSendDone(r)
    \/ \E r \in Slots : Recycle(r)
    \/ Tick
    \/ Shutdown

SpecWarm == InitWarm /\ [][NextWarm]_vars


\* ------------------------------------------------------------------------
\* Concurrent POST /api/send-message requests
\* ------------------------------------------------------------------------

\* A signed-in service at time 0 on which every key is two entries, or
\* every key is one entry, short of the ceiling.
InitSends ==
    /\ envOk = TRUE
    /\ listening = TRUE
    /\ exited = FALSE
    /\ now = 0
    /\ mtprotoService = "instance"
    /\ \E n \in { RateCeiling - 2, RateCeiling - 1 } :
          LET res == ProbeAnswered([ NewReq("startup", TRUE, << >>, FALSE) EXCEPT !.pc = "probing" ],
                                   NewService(0, Profile1), 0, OkOut("self"))
          IN  /\ svc = [res.svc EXCEPT !.rateLimits = [k \in Keys |-> Admitted(n)]]
              /\ req = [r \in Slots |-> IF r = 0 THEN [res.q EXCEPT !.answer = OkOut("self")]
                                                ELSE IdleReq]
    /\ nRequests = 0
    /\ authOk = TRUE
    /\ codeSent = FALSE
    /\ constructed = 1
    /\ got = NoGot

\* A well-formed request that asks for no typing simulation
\* (options.simulateTyping === false) arrives.
PlainSendRequest(r) ==
    /\ Request(r, SendOps, MaxSends)
    /\ req'[r].valid /\ ~req'[r].simulateTyping

\* The requests are served side by side, each in a slot of its own.
NextSends ==
    \/ \E r \in Slots \ {0} : PlainSendRequest(r)
    \/ \E r \in Slots : ResolveReturns(r)
    \/ \E r \in Slots : PreSendDone(r)
    \/ \E r \in Slots : SendReturns(r)
    \/ \E r \in Slots : PostSendDone(r)
    \/ Tick

SpecSends == InitSends /\ [][NextSends]_vars


\* ------------------------------------------------------------------------
\* simulateTyping for messages of every length
\* ------------------------------------------------------------------------

\* A signed-in service at time 0 with one request in sendMessage: a message
\* of some length has been admitted and its recipient is being resolved.
InitTyping ==
    /\ envOk = TRUE
    /\ listening = TRUE
    /\ exited = FALSE
    /\ now = 0
    /\ mtprotoService = "instance"
    /\ \E target \in Targets : \E length \in Lengths :
          LET probe == ProbeAnswered([ NewReq("startup", TRUE, << >>, FALSE)
                                         EXCEPT !.pc = "probing" ],
                                     NewService(0, Profile1), 0, OkOut("self"))
              send  == sendMessageEntry([ NewReq("send", TRUE, target, TRUE)
                                            EXCEPT !.length = length ],
                                        probe.svc, 0)
          IN  /\ svc = send.svc
              /\ req = [r \in Slots |->
                           IF r = 0 THEN [probe.q EXCEPT !.answer = OkOut("self")]
                           ELSE IF r = 1 THEN send.q
                           ELSE IdleReq]
    /\ nRequests = 1
    /\ authOk = TRUE
    /\ codeSent = FALSE
    /\ constructed = 1
    /\ got = NoGot

\* contacts.resolveUsername is answered to the first variant of the class,
\* whose sendMessage goes the same way with its own simulateTyping.
ResolveReturnsFirst(r) ==
    \E o \in ResolveOutcomes : \E variance \in Variances :
        SendStep(r, "resolving",
                 [ sendMessageResolved(req[r], o, typingDurationFirst(req[r].length, variance))
                     EXCEPT !.answer = o ])

NextTyping ==
    \/ \E r \in Slots : ResolveReturns(r)
    \/ \E r \in Slots : ResolveReturnsFirst(r)
    \/ \E r \in Slots : TypingSetReturns(r)
    \/ \E r \in Slots : TypingHoldDone(r)
    \/ \E r \in Slots : TypingCancelReturns(r)
    \/ \E r \in Slots : TypingPauseDone(r)

SpecTyping == InitTyping /\ [][NextTyping]_vars


\* ------------------------------------------------------------------------
\* The process for every draw of the identity profile, its requests served
\* one after another
\* ------------------------------------------------------------------------

NextProfile ==
    \/ Listen(Profiles)
    \/ Request(1, Ops, MaxRequests)
    \/ \E r \in Slots : ProbeReturns(r)
    \/ \E r \in Slots : SendCodeReturns(r)
    \/ \E r \in Slots : SignInReturns(r)
    \/ \E r \in Slots : ResolveReturns(r)
    \/ \E r \in Slots : TypingSetReturns(r)
    \/ \E r \in Slots : TypingHoldDone(r)
    \/ \E r \in Slots : TypingCancelReturns(r)
    \/ \E r \in Slots : TypingPauseDone(r)
    \/ \E r \in Slots : PreSendDone(r)
    \/ \E r \in Slots : SendReturns(r)
    \/ \E r \in Slots : PostSendDone(r)
    \/ \E r \in Slots : Recycle(r)
    \/ Tick
    \/ Shutdown

SpecProfile == Init /\ [][NextProfile]_vars


\* ------------------------------------------------------------------------
\* The session store and cleanup(), called on the service one after another
\* ------------------------------------------------------------------------

\* A service constructed at time 0: both maps empty.
InitStore ==
    /\ envOk = TRUE
    /\ listening = TRUE
    /\ exited = FALSE
    /\ now = 0
    /\ mtprotoService = "instance"
    /\ svc = NewService(0, Profile1)
    /\ req = [r \in Slots |-> IdleReq]
    /\ nRequests = 0
    /\ authOk = FALSE
    /\ codeSent = FALSE
    /\ constructed = 1
    /\ got = NoGot

\* storage.set(key, value)
StoreSet(key, value) ==
    /\ svc' = [svc EXCEPT !.inMemoryStorage = storageSet(svc.inMemoryStorage, key, value)]
    /\ got' = << "set" >> \o value
    /\ UNCHANGED << envOk, listening, exited, now, mtprotoService, req, nRequests,
                    authOk, codeSent, constructed >>

\* storage.get(key)
StoreGet(key) ==
    /\ got' = << "get" >> \o storageGet(svc.inMemoryStorage, key)
    /\ UNCHANGED << envOk, listening, exited, now, mtprotoService, svc, req, nRequests,
                    authOk, codeSent, constructed >>

\* storage.delete(key)
StoreDelete(key) ==
    /\ svc' = [svc EXCEPT !.inMemoryStorage = storageDelete(svc.inMemoryStorage, key)]
    /\ got' = << "delete" >>
    /\ UNCHANGED << envOk, listening, exited, now, mtprotoService, req, nRequests,
                    authOk, codeSent, constructed >>

\* storage.clear()
StoreClear ==
    /\ svc' = [svc EXCEPT !.inMemoryStorage = storageClear(svc.inMemoryStorage)]
    /\ got' = << "clear" >>
    /\ UNCHANGED << envOk, listening, exited, now, mtprotoService, req, nRequests,
                    authOk, codeSent, constructed >>

\* cleanup() is called; got tells a call that follows another cleanup()
\* at once from a first one.
Cleanup ==
    /\ svc' = cleanup(svc)
    /\ got' = << "cleanup", IF got[1] = "cleanup" THEN "again" ELSE "first" >>
    /\ UNCHANGED << envOk, listening, exited, now, mtprotoService, req, nRequests,
                    authOk, codeSent, constructed >>

\* checkRateLimit(userId) admits a call while the window of userId is short.
StoreAdmit(userId) ==
    /\ Len(svc.rateLimits[userId]) < MaxStoreAdmits
    /\ svc' = [svc EXCEPT !.rateLimits = checkRateLimit(svc.rateLimits, userId, now).rateLimits]
    /\ got' = << "checkRateLimit" >>
    /\ UNCHANGED << envOk, listening, exited, now, mtprotoService, req, nRequests,
                    authOk, codeSent, constructed >>

NextStore ==
    \/ \E key \in StoreKeys : \E value \in StoreValues : StoreSet(key, value)
    \/ \E key \in StoreKeys : StoreGet(key)
    \/ \E key \in StoreKeys : StoreDelete(key)
    \/ StoreClear
    \/ Cleanup
    \/ \E userId \in Keys : StoreAdmit(userId)

SpecStore == InitStore /\ [][NextStore]_vars


\* ------------------------------------------------------------------------
\* checkRateLimit on windows that are about to reach the ceiling
\* ------------------------------------------------------------------------

\* A service constructed at time 0 that has admitted, at time 0, one call
\* less than the ceiling for every key.
InitWindow ==
    /\ envOk = TRUE
    /\ listening = TRUE
    /\ exited = FALSE
    /\ now = 0
    /\ mtprotoService = "instance"
    /\ svc = [ NewService(0, Profile1)
                EXCEPT !.rateLimits = [k \in Keys |-> Admitted(RateCeiling - 1)] ]
    /\ req = [r \in Slots |-> IdleReq]
    /\ nRequests = 0
    /\ authOk = FALSE
    /\ codeSent = FALSE
    /\ constructed = 1
    /\ got = NoGot

\* checkRateLimit(userId) is called at Date.now() = now; nRequests counts
\* the calls and got keeps the verdict.
WindowAttempt(userId) ==
    /\ nRequests < MaxAttempts
    /\ LET adm == checkRateLimit(svc.rateLimits, userId, now)
       IN  /\ svc' = [svc EXCEPT !.rateLimits = adm.rateLimits]
           /\ got' = << "checkRateLimit", IF adm.ok THEN "true" ELSE "false" >>
    /\ nRequests' = nRequests + 1
    /\ UNCHANGED << envOk, listening, exited, now, mtprotoService, req,
                    authOk, codeSent, constructed >>

NextWindow ==
    \/ \E userId \in Keys : WindowAttempt(userId)
    \/ RateTick

SpecWindow == InitWindow /\ [][NextWindow]_vars


\* ------------------------------------------------------------------------
\* Claims about the rate limiter
\* ------------------------------------------------------------------------

\* The entries of sequence L that lie in the window of RateWindowMs
\* milliseconds that ends at time t.
InWindow(L, t) == { i \in DOMAIN L : L[i] <= t /\ t - L[i] < RateWindowMs }

\* C1: for every key, after any sequence of checkRateLimit calls at
\* non-decreasing clock values, accepted or rejected, no trailing one-hour
\* window (ending now or at any recorded timestamp) holds more than 30 of
\* the timestamps recorded for the key.
C1_WindowNeverOverCeiling ==
    \A k \in Keys :
        LET L == svc.rateLimits[k]
        IN  \A t \in { L[i] : i \in DOMAIN L } \cup { now } :
                Cardinality(InWindow(L, t)) <= RateCeiling

\* C1 witness: a key holds 30 timestamps recorded at two different times,
\* all inside the window that ends now, and a call made now is rejected.
C1_Witness ==
    \E k \in Keys :
        LET L == svc.rateLimits[k]
        IN  /\ Cardinality(InWindow(L, now)) = RateCeiling
            /\ L[1] # L[Len(L)]
            /\ ~checkRateLimit(svc.rateLimits, k, now).ok

\* C2: a checkRateLimit call that returns false leaves the stored sequence
\* of its key and of every other key exactly as it was before the call.
C2_RejectedAdmitChangesNothing ==
    [][ \A k \in Keys :
            (RateAdmit(k) /\ ~checkRateLimit(svc.rateLimits, k, now).ok)
                => svc'.rateLimits = svc.rateLimits ]_vars

\* C2 witness: one key is at the ceiling, so that a call for it is rejected
\* (and leads back to this state), while the other key holds entries too.
C2_Witness ==
    \E k \in Keys : \E k2 \in Keys \ {k} :
        /\ ~checkRateLimit(svc.rateLimits, k, now).ok
        /\ svc.rateLimits[k2] # << >>


\* ------------------------------------------------------------------------
\* Claims about sendMessage
\* ------------------------------------------------------------------------

\* The rate-limit error of sendMessage.
RateLimitError == Throw(<< >>, "Rate limit exceeded")

\* C3: whenever sendMessage is denied by the rate limiter it fails with the
\* rate-limit error and makes no collaborator call during that invocation:
\* the request that enters sendMessage while its key is at the ceiling ends
\* at once with that error and an empty list of calls.
C3_DeniedSendCallsNothing ==
    [][ \A r \in Slots :
            ( /\ req[r].pc = "idle"
              /\ req'[r].op = "send" /\ req'[r].valid
              /\ ~checkRateLimit(svc.rateLimits, replaceAt(req'[r].target), now).ok )
            => ( /\ req'[r].pc = "done"
                 /\ req'[r].ret = RateLimitError
                 /\ req'[r].calls = << >> ) ]_vars

\* C3 witness: a send to a key that holds 30 entries in its window has
\* ended with the rate-limit error.
C3_Witness ==
    \E r \in Slots :
        /\ req[r].op = "send" /\ req[r].pc = "done"
        /\ req[r].ret = RateLimitError
        /\ Cardinality(InWindow(svc.rateLimits[replaceAt(req[r].target)], now)) = RateCeiling

\* C4: a sendMessage that was admitted, resolved its recipient and whose
\* messages.sendMessage succeeded returns just the collaborator's result
\* (the one that carries the message id), and from its return on
\* last-activity is not earlier than the time of the send.
C4_SuccessfulSendReturnsResult ==
    \A r \in Slots :
        (req[r].op = "send" /\ req[r].sentAt >= 0)
            => /\ req[r].pc \in { "postSend", "done" }
               /\ req[r].pc = "done"
                    => /\ req[r].ret = Return(req[r].answer.value)
                       /\ req[r].answer \in SendOutcomes
                       /\ req[r].resp.status = 200
                       /\ svc.lastActivity >= req[r].sentAt

\* C4 witness: a send answered after the clock had advanced has returned,
\* and last-activity has moved from the construction time to that time.
C4_Witness ==
    \E r \in Slots :
        /\ req[r].op = "send" /\ req[r].pc = "done"
        /\ req[r].ret.kind = "return"
        /\ req[r].sentAt > 0
        /\ svc.lastActivity = req[r].sentAt


\* ------------------------------------------------------------------------
\* Claims about the authentication state
\* ------------------------------------------------------------------------

\* Slot r's handler receives the collaborator's answer to the call it
\* awaits at pc in this step.
Answered(r, pc) == req[r].pc = pc /\ req'[r].pc # pc

\* C5: a signIn call made while the session state is UNAUTHENTICATED or
\* AUTHENTICATED is rejected without calling the collaborator: as long as
\* no code request has succeeded (so that the state cannot be CODE_SENT), no
\* sign_in handler has issued auth.signIn.
C5_SignInOnlyFromCodeSent ==
    \A r \in Slots :
        (req[r].op = "sign_in" /\ ~codeSent /\ SessionState(svc) # "CODE_SENT")
            => req[r].calls = << >>

\* C6: after a successful requestCode, a signIn that the collaborator
\* rejects as invalid or expired fails with the InvalidCode or CodeExpired
\* class of error and leaves the session state at CODE_SENT.
C6_RejectedCodeStaysCodeSent ==
    [][ \A r \in Slots :
            ( /\ Answered(r, "signingIn")
              /\ codeSent
              /\ req'[r].answer.error_message \in { PHONE_CODE_INVALID, PHONE_CODE_EXPIRED } )
            => ( /\ req'[r].resp.status = 400
                 /\ SessionState(svc') = "CODE_SENT" ) ]_vars

\* C7: when the probe fails with AUTH_KEY_UNREGISTERED, initialize() yields
\* the AuthRequired outcome and the session state is UNAUTHENTICATED
\* afterwards; any other probe error propagates with its code and the state
\* is still UNAUTHENTICATED.
C7_FailedProbeLeavesUnauthenticated ==
    [][ \A r \in Slots :
            (Answered(r, "probing") /\ ~req'[r].answer.ok)
            => ( /\ req'[r].pc = "done"
                 /\ req'[r].ret =
                        IF req'[r].answer.error_message = AUTH_KEY_UNREGISTERED
                        THEN Throw(<< >>, "Authentication required")
                        ELSE Throw(req'[r].answer.error_message, "")
                 /\ SessionState(svc') = "UNAUTHENTICATED" ) ]_vars

\* C8: the session becomes AUTHENTICATED only in a step in which the
\* collaborator answers a probe or a sign-in call with success; no failed
\* call and no other operation (sendCode, sendMessage, getStatus, cleanup)
\* sets it, so that it is AUTHENTICATED only after such a success.
C8_AuthenticatedOnlyBySuccess ==
    [][ (svc'.isAuthenticated /\ ~svc.isAuthenticated)
            => /\ authOk'
               /\ \E r \in Slots :
                     /\ Answered(r, "probing") \/ Answered(r, "signingIn")
                     /\ req'[r].answer.ok ]_vars

\* C8 witness: the probe was answered "not registered", a sign-in has then
\* succeeded and the session is AUTHENTICATED.
C8_Witness ==
    /\ svc.isAuthenticated
    /\ req[0].pc = "done" /\ req[0].ret.kind = "throw"
    /\ \E r \in Slots : req[r].op = "sign_in" /\ req[r].ret.kind = "return"

\* C9: when the collaborator answers signIn with SESSION_PASSWORD_NEEDED
\* the service's state does not change and the caller is answered with the
\* distinct non-fatal outcome "password required" (HTTP 200), not an error.
C9_TwoFactorIsNotAnError ==
    [][ \A r \in Slots :
            ( /\ Answered(r, "signingIn")
              /\ req'[r].answer.error_message = SESSION_PASSWORD_NEEDED )
            => ( /\ svc' = svc
                 /\ req'[r].pc = "done"
                 /\ req'[r].resp = Resp(200, "password_required") ) ]_vars

\* C9 witness: a sign-in answered SESSION_PASSWORD_NEEDED has been answered
\* "password required".
C9_Witness ==
    \E r \in Slots :
        /\ req[r].op = "sign_in" /\ req[r].pc = "done"
        /\ req[r].answer.error_message = SESSION_PASSWORD_NEEDED
        /\ req[r].resp.body = "password_required"

\* C10: a successful requestCode from UNAUTHENTICATED stores a Pending
\* Verification and moves the session to CODE_SENT.
C10_CodeRequestMovesToCodeSent ==
    [][ \A r \in Slots :
            ( /\ Answered(r, "sendingCode")
              /\ req'[r].answer.ok
              /\ SessionState(svc) = "UNAUTHENTICATED" )
            => ( /\ SessionState(svc') = "CODE_SENT"
                 /\ PendingVerification(svc') # << >> ) ]_vars


\* ------------------------------------------------------------------------
\* Claims about the orchestration of a send
\* ------------------------------------------------------------------------

\* C11: sendMessage dispatches only for a signed-in session: the step that
\* issues the collaborator's messages.sendMessage is taken only while the
\* session state is AUTHENTICATED.
C11_SendOnlyWhenAuthenticated ==
    [][ \A r \in Slots :
            (req[r].pc = "preSend" /\ req'[r].pc = "sending")
                => SessionState(svc) = "AUTHENTICATED" ]_vars

\* C12: for every message length and every random draw in [0, 1000) the
\* typing hold that simulateTyping computes is clamp(length*50 + draw,
\* 1000, 5000) milliseconds: between 1000 and 5000, exactly 1000 for
\* length 0 and exactly 5000 for length 200.
C12_TypingHoldClamped ==
    \A r \in Slots :
        req[r].pc \in { "typingSet", "typingHold" }
            => /\ \E draw \in 0..(TypingVarianceMs - 1) :
                     req[r].typingDuration =
                         Min(Max(req[r].length * TypingMsPerChar + draw, MinTypingMs),
                             MaxTypingMs)
               /\ req[r].typingDuration >= MinTypingMs
               /\ req[r].typingDuration <= MaxTypingMs
               /\ req[r].length = 0 => req[r].typingDuration = MinTypingMs
               /\ req[r].length = 200 => req[r].typingDuration = MaxTypingMs

\* C12, for the second variant of the class alone (the steps of
\* ResolveReturnsFirst aside): its typing hold is the clamped value.
C12_TypingHoldClampedSecondVariant ==
    [][ \A r \in Slots :
            (ResolveReturns(r) /\ req'[r].pc = "typingSet")
                => /\ req'[r].typingDuration >= MinTypingMs
                   /\ req'[r].typingDuration <= MaxTypingMs
                   /\ req[r].length = 0 => req'[r].typingDuration = MinTypingMs
                   /\ req[r].length = 200 => req'[r].typingDuration = MaxTypingMs ]_vars

\* C13: a failure of either typing-indicator call (typing set or typing
\* cancelled) is never propagated: sendMessage goes on to the pre-send
\* delay with nothing thrown and nothing answered, and the outcome of the
\* send is decided by the answer to messages.sendMessage alone, as it is
\* when typing has succeeded.
C13_TypingFailureSwallowed ==
    [][ \A r \in Slots :
            /\ ( /\ Answered(r, "typingSet") \/ Answered(r, "typingCancel")
                 /\ ~req'[r].answer.ok )
               => ( /\ req'[r].pc = "preSend"
                    /\ req'[r].ret = NoRet
                    /\ req'[r].resp = NoResp )
            /\ (req[r].pc = "preSend" /\ req'[r].pc # "preSend")
               => ( /\ req'[r].pc = "sending"
                    /\ req'[r].calls = Append(req[r].calls, "messages.sendMessage") )
            /\ Answered(r, "sending")
               => IF req'[r].answer.ok
                  THEN req'[r].pc = "postSend" /\ req'[r].result = req'[r].answer.value
                  ELSE req'[r].ret = Throw(req'[r].answer.error_message, "") ]_vars

\* C13 witness: a send whose first typing call failed (no cancel call was
\* made) has returned the result of messages.sendMessage all the same.
C13_Witness ==
    \E r \in Slots :
        /\ req[r].op = "send" /\ req[r].pc = "done"
        /\ req[r].ret = Return("msg")
        /\ req[r].calls = << "contacts.resolveUsername", "messages.setTyping typing",
                             "messages.sendMessage" >>

\* The error ret says that the recipient was not found: the Error that
\* resolveUsername throws for an empty users list, or a collaborator error
\* whose code is the recipient-not-found one (USERNAME_NOT_OCCUPIED).
RecipientNotFound(ret) ==
    /\ ret.kind = "throw"
    /\ \/ ret = Throw(<< >>, "User not found")
       \/ includes(ret.error_message, USERNAME_NOT_OCCUPIED)

\* The request makes no collaborator call beyond contacts.resolveUsername.
OnlyResolved(q) == q.calls = << "contacts.resolveUsername" >>

\* C14: when recipient resolution yields no match (an empty users list or
\* any error of the collaborator's resolution call) sendMessage fails with
\* the RecipientNotFound class of error, and no typing-indicator call and
\* no message-send call is made for the request.
C14_NoMatchIsRecipientNotFound ==
    [][ \A r \in Slots :
            ( /\ Answered(r, "resolving")
              /\ ~req'[r].answer.ok \/ req'[r].answer.value = "nousers" )
            => ( /\ req'[r].pc = "done"
                 /\ RecipientNotFound(req'[r].ret)
                 /\ OnlyResolved(req'[r]) ) ]_vars

\* C14 as the code has it: an empty users list and the collaborator's
\* USERNAME_NOT_OCCUPIED make sendMessage fail with the RecipientNotFound
\* class of error; any other error of the resolution call (a flood wait)
\* reaches the caller as it is, with its own code; in every one of these
\* cases the request ends there, with no typing-indicator call and no
\* message-send call made, then or later.
C14_NoMatchEndsTheSend ==
    [][ \A r \in Slots :
            /\ ( /\ Answered(r, "resolving")
                 /\ ~req'[r].answer.ok \/ req'[r].answer.value = "nousers" )
               => ( /\ req'[r].pc = "done"
                    /\ OnlyResolved(req'[r])
                    /\ IF req'[r].answer.ok \/ req'[r].answer.error_message = USERNAME_NOT_OCCUPIED
                       THEN RecipientNotFound(req'[r].ret)
                       ELSE req'[r].ret = Throw(req'[r].answer.error_message, "") )
            /\ (req[r].pc = "done" /\ req[r].op = "send" /\ req'[r].op = "send")
               => req'[r].calls = req[r].calls ]_vars

\* C14 witness: a send has failed on an empty users list with the
\* RecipientNotFound error and only the resolution call made.
C14_Witness ==
    \E r \in Slots :
        /\ req[r].op = "send" /\ req[r].pc = "done"
        /\ req[r].answer = OkOut("nousers")
        /\ RecipientNotFound(req[r].ret)
        /\ OnlyResolved(req[r])

\* The number of messages.sendMessage calls among the calls of request q.
SendCalls(q) == Cardinality({ i \in DOMAIN q.calls : q.calls[i] = "messages.sendMessage" })

\* C15: the orchestrator never retries a send: within one sendMessage
\* invocation messages.sendMessage is issued at most once, whatever error
\* it or any other step returns, and a request that has ended issues no
\* call any more.
C15_SendIssuedAtMostOnce ==
    \A r \in Slots :
        /\ SendCalls(req[r]) <= 1
        /\ req[r].pc \in { "sending", "postSend" } => SendCalls(req[r]) = 1
        /\ ( /\ req[r].op = "send" /\ req[r].pc = "done"
             /\ req[r].answer \in SendOutcomes \ ResolveOutcomes )
              => SendCalls(req[r]) = 1

\* C15 witness: a send has failed on a ban answered to
\* messages.sendMessage, which was called once.
C15_Witness ==
    \E r \in Slots :
        /\ req[r].op = "send" /\ req[r].pc = "done"
        /\ req[r].ret = Throw(USER_BANNED, "")
        /\ SendCalls(req[r]) = 1

\* C16: a collaborator error raised during sendMessage that is not
\* specifically handled (an error of the resolution call or of the send
\* call; those of the typing calls are swallowed) reaches the caller with
\* the collaborator's original code attached, so that the caller
\* classifies it: flood control (429), ban (403), recipient not found
\* (404), unregistered session (401), other (500).
C16_ErrorKeepsOriginalCode ==
    [][ \A r \in Slots :
            ( /\ Answered(r, "resolving") \/ Answered(r, "sending")
              /\ ~req'[r].answer.ok )
            => LET code == req'[r].answer.error_message
               IN  /\ req'[r].pc = "done"
                   /\ req'[r].ret.kind = "throw"
                   /\ req'[r].ret.error_message = code
                   /\ req'[r].resp.status =
                          CASE includes(code, << "FLOOD", "WAIT" >>) -> 429
                            [] code = USER_BANNED           -> 403
                            [] code = USERNAME_NOT_OCCUPIED -> 404
                            [] code = AUTH_KEY_UNREGISTERED -> 401
                            [] OTHER                        -> 500 ]_vars

\* C16 witness: a send has failed with the code that messages.sendMessage
\* answered, one that no handler looks for.
C16_Witness ==
    \E r \in Slots :
        /\ req[r].op = "send" /\ req[r].pc = "done"
        /\ SendCalls(req[r]) = 1
        /\ req[r].ret.error_message = PEER_ID_INVALID
        /\ req[r].resp.status = 500

\* The wait-seconds value embedded in a flood-wait code, FLOOD_WAIT_<n>:
\* the number its third part spells, or -1 when that part spells none.
EmbeddedWait(code) == IF Len(code) >= 3 THEN parseInt(code[3]) ELSE -1

\* C17: every flood-wait error of the collaborator that a handler reports
\* (HTTP 429) is reported with a numeric wait time: the value embedded in
\* the code when it parses, and the fallback of 60 seconds only when
\* parsing it fails.
C17_FloodWaitReportsEmbeddedTime ==
    \A r \in Slots :
        ( /\ req[r].pc = "done" /\ req[r].resp.status = 429
          /\ includes(req[r].ret.error_message, << "FLOOD", "WAIT" >>) )
        => req[r].resp.retry_after =
               IF EmbeddedWait(req[r].ret.error_message) >= 0
               THEN EmbeddedWait(req[r].ret.error_message)
               ELSE 60


\* ------------------------------------------------------------------------
\* Claims about concurrent requests
\* ------------------------------------------------------------------------

\* Slot r's handler starts in this step and reaches initializeMTProto().
Starts(r) ==
    /\ req[r].pc = "idle" /\ req'[r].pc # "idle"
    /\ ~(req'[r].op = "send" /\ ~req'[r].valid)

\* C18: under any interleaving of requests at most one MTProtoService
\* instance is ever constructed successfully in the process; it is
\* constructed by the first initializeMTProto() call (with a complete
\* environment), and every later call finds that instance: the global,
\* once set, is never set again and no other object is constructed.
C18_SingleInstance ==
    [][ /\ constructed' <= 1
        /\ (mtprotoService' = "instance") <=> (constructed' = 1)
        /\ mtprotoService = "instance"
              => (mtprotoService' = "instance" /\ constructed' = constructed)
        /\ \A r \in Slots :
              (Starts(r) /\ mtprotoService = "null" /\ envOk)
                  => (constructed' = 1 /\ req'[r].pc = "probing")
        /\ \A r \in Slots :
              (Starts(r) /\ mtprotoService = "instance")
                  => (req'[r].pc # "probing" /\ svc'.lastActivity = svc.lastActivity) ]_vars

\* C18 witness: while the probe of the first initializeMTProto() call is
\* still awaited, a request has gone on with the instance that call made.
C18_Witness ==
    /\ constructed = 1
    /\ req[0].pc = "probing"
    /\ \E r \in Slots \ {0} : req[r].op = "send" /\ req[r].pc = "resolving"

\* C19: under any interleaving of concurrent sendMessage requests for the
\* same recipient key each admit's read-filter-append of the key's sequence
\* is atomic: the step that admits a request stores the entries that were
\* in the window just before it plus its own timestamp, a denied request
\* stores nothing, no other step of any request writes the map (so no
\* admitted timestamp is lost or overwritten), and the number admitted
\* within a one-hour window never exceeds 30.
C19_AdmitsAreAtomic ==
    [][ /\ \A r \in Slots :
              (Starts(r) /\ req'[r].op = "send")
                  => LET k      == replaceAt(req'[r].target)
                         recent == SelectSeq(svc.rateLimits[k],
                                             LAMBDA time : now - time < RateWindowMs)
                     IN  IF Len(recent) < RateCeiling
                         THEN /\ svc'.rateLimits =
                                     [svc.rateLimits EXCEPT ![k] = Append(recent, now)]
                              /\ req'[r].pc = "resolving"
                         ELSE /\ svc'.rateLimits = svc.rateLimits
                              /\ req'[r].ret = RateLimitError
        /\ (\A r \in Slots : ~Starts(r)) => svc'.rateLimits = svc.rateLimits
        /\ \A k \in Keys :
              Cardinality(InWindow(svc'.rateLimits[k], now')) <= RateCeiling ]_vars

\* C19 witness: two requests for the same key are in sendMessage at the
\* same time, both admitted at different times, and the key holds the
\* entries it had plus the timestamps of both, 30 in all.
C19_Witness ==
    \E r1, r2 \in Slots : \E k \in Keys :
        /\ r1 # r2
        /\ req[r1].op = "send" /\ req[r1].pc = "resolving" /\ replaceAt(req[r1].target) = k
        /\ req[r2].op = "send" /\ req[r2].pc = "sending" /\ replaceAt(req[r2].target) = k
        /\ Len(svc.rateLimits[k]) = RateCeiling
        /\ svc.rateLimits[k][RateCeiling - 1] < svc.rateLimits[k][RateCeiling]

\* C20: auth transitions are serialized: when two sendCode/signIn calls on
\* the session overlap, the second does not run its collaborator call
\* while the first awaits its own, so at most one of these calls is in
\* flight at any time.
C20_AuthCallsSerialized ==
    Cardinality({ r \in Slots : req[r].pc \in { "sendingCode", "signingIn" } }) <= 1


\* ------------------------------------------------------------------------
\* Claims about cleanup() and the session store
\* ------------------------------------------------------------------------

\* The service s holds no rate-limit entry and no session entry.
Clean(s) == s.rateLimits = EmptyRateLimits /\ s.inMemoryStorage = EmptyStorage

\* C21: cleanup() empties the rate-limit map and the session store, and it
\* is idempotent: called on a service that is already clean (a second call,
\* or a call on a service nothing was put into) it leaves the service as it
\* is, and one more call would change nothing in any case.
C21_CleanupIdempotent ==
    [][ Cleanup => /\ Clean(svc')
                   /\ cleanup(svc') = svc'
                   /\ (Clean(svc) => svc' = svc) ]_vars

\* C21 witness: cleanup() was called a second time right after a first
\* call, and the service is clean.
C21_Witness ==
    /\ got = << "cleanup", "again" >>
    /\ Clean(svc)

\* C27 (as stated): get(key) answers the value most recently set for key,
\* whatever the value, and null only for a key that holds nothing.
C27_GetReturnsLastSet ==
    [][ \A key \in StoreKeys :
          StoreGet(key) =>
             LET held == svc.inMemoryStorage[key]
             IN  got' = << "get" >> \o (IF held = undefined THEN null ELSE held) ]_vars


\* ------------------------------------------------------------------------
\* Claims about the order of a send and about shutdown
\* ------------------------------------------------------------------------

\* The place of each await of sendMessage in the order of its events.
Stage(pc) ==
    CASE pc = "resolving"    -> 1
      [] pc = "typingSet"    -> 2
      [] pc = "typingHold"   -> 3
      [] pc = "typingCancel" -> 4
      [] pc = "typingPause"  -> 5
      [] pc = "preSend"      -> 6
      [] pc = "sending"      -> 7
      [] pc = "postSend"     -> 8
      [] pc = "done"         -> 9
      [] OTHER               -> 0

\* The place of each collaborator call in that order.
CallStage(method) ==
    CASE method = "contacts.resolveUsername"  -> 1
      [] method = "messages.setTyping typing" -> 2
      [] method = "messages.setTyping cancel" -> 4
      [] method = "messages.sendMessage"      -> 7
      [] OTHER                                -> 0

\* The await that follows the one at q.pc when that one has completed with
\* the answer o, in a sendMessage that goes on.
NextEvent(q, o) ==
    CASE q.pc = "idle"         -> "resolving"
      [] q.pc = "resolving"    -> IF q.simulateTyping THEN "typingSet" ELSE "preSend"
      [] q.pc = "typingSet"    -> IF o.ok THEN "typingHold" ELSE "preSend"
      [] q.pc = "typingHold"   -> "typingCancel"
      [] q.pc = "typingCancel" -> IF o.ok THEN "typingPause" ELSE "preSend"
      [] q.pc = "typingPause"  -> "preSend"
      [] q.pc = "preSend"      -> "sending"
      [] q.pc = "sending"      -> "postSend"
      [] OTHER                 -> "done"

\* C22: a sendMessage goes through its events in one order, each after the
\* one before it has completed: rate-limit admit, recipient resolution,
\* typing set, typing hold, typing cancelled (and the pause that ends the
\* typing simulation), pre-send delay, collaborator send, post-send delay,
\* last-activity update and return. Every step of a send either ends it
\* with an error or moves it to the next event and to no other; the calls
\* made so far are in that order, none twice; with simulateTyping false no
\* typing event happens; last-activity is written in the step that returns.
C22_EventsInOrder ==
    [][ \A r \in Slots \ {0} :
          LET q  == req[r]
              q2 == req'[r]
          IN  (q2.op = "send" /\ q2 # q) =>
                 \/ q2.pc = "done" /\ q2.ret.kind # "return"
                 \/ /\ q2.pc = NextEvent(q, q2.answer)
                    /\ Stage(q2.pc) > Stage(q.pc)
                    /\ \A i, j \in DOMAIN q2.calls :
                          i < j => CallStage(q2.calls[i]) < CallStage(q2.calls[j])
                    /\ q.pc = "idle" =>
                          LET L == svc'.rateLimits[replaceAt(q2.target)]
                          IN  /\ Len(L) > 0 /\ L[Len(L)] = now
                              /\ q2.calls = << "contacts.resolveUsername" >>
                    /\ ~q2.simulateTyping => Stage(q2.pc) \notin 2..5
                    /\ CallStage(q2.calls[Len(q2.calls)]) <= Stage(q2.pc)
                    /\ q2.pc = "done" =>
                          /\ q.pc = "postSend"
                          /\ svc'.lastActivity = now
                          /\ q2.ret = Return(q.result) ]_vars

\* C22 witness: a send with typing simulation has returned after all four
\* of its collaborator calls.
C22_Witness ==
    \E r \in Slots \ {0} :
        /\ req[r].op = "send" /\ req[r].simulateTyping
        /\ req[r].pc = "done" /\ req[r].ret.kind = "return"
        /\ req[r].calls = << "contacts.resolveUsername", "messages.setTyping typing",
                             "messages.setTyping cancel", "messages.sendMessage" >>
        /\ svc.lastActivity = now

\* The awaits of sendMessage at which a collaborator call has been issued
\* and not yet answered.
CallPending(q) ==
    q.op = "send" /\ q.pc \in { "resolving", "typingSet", "typingCancel", "sending" }

\* C23 (as stated): once the process has exited on SIGTERM or SIGINT, no
\* sendMessage in flight is left with a collaborator call it has issued and
\* that has not completed: each was answered before the exit, or the send
\* was abandoned in one of its sleeps.
C23_NoCallPendingAtExit ==
    exited => \A r \in Slots : ~CallPending(req[r])


\* ------------------------------------------------------------------------
\* Claims about the rate limiter's window and key
\* ------------------------------------------------------------------------

\* C24: the limiter is a sliding window. A call of checkRateLimit made one
\* hour or more after the oldest timestamp the key holds is accepted and
\* recorded, whether the key is at the ceiling or not and however many
\* calls were rejected since that timestamp was recorded.
C24_AcceptedOneHourAfterOldest ==
    [][ \A userId \in Keys :
          LET L  == svc.rateLimits[userId]
              L2 == svc'.rateLimits[userId]
          IN  ( /\ WindowAttempt(userId)
                /\ Len(L) > 0 /\ now - L[1] >= RateWindowMs )
              => /\ got' = << "checkRateLimit", "true" >>
                 /\ Len(L2) > 0 /\ L2[Len(L2)] = now ]_vars

\* C24 witness: one key took every call so far: the first reached the
\* ceiling at time 0, as many as the ceiling counts were rejected within
\* the hour, and the last, one hour after time 0, was accepted and is the
\* only entry left.
C24_Witness ==
    \E userId \in Keys :
        /\ nRequests = RateCeiling + 2
        /\ \A k \in Keys \ {userId} : svc.rateLimits[k] = Admitted(RateCeiling - 1)
        /\ svc.rateLimits[userId] = << RateWindowMs >>
        /\ got = << "checkRateLimit", "true" >>

\* The recipient a target names: the target without its leading "@", in
\* lower case.
Recipient(target) ==
    LET name == IF Len(target) > 0 /\ target[1] = "@" THEN Tail(target) ELSE target
    IN  [ i \in DOMAIN name |-> IF name[i] = "A" THEN "a" ELSE name[i] ]

\* C25 (as stated): two targets that name one recipient, differing by a
\* leading "@" or by letter case only, are counted against one window: the
\* keys sendMessage derives from them hold the same entries at all times.
C25_OneWindowPerRecipient ==
    \A t1, t2 \in Targets :
        Recipient(t1) = Recipient(t2) =>
            svc.rateLimits[replaceAt(t1)] = svc.rateLimits[replaceAt(t2)]


\* ------------------------------------------------------------------------
\* Claims about the fields of the service
\* ------------------------------------------------------------------------

\* The identity profile getStatus() reports.
ReportedProfile(s) ==
    [ deviceModel   |-> getStatus(s).device_model,
      systemVersion |-> getStatus(s).system_version,
      appVersion    |-> getStatus(s).app_version ]

\* C26: the identity profile drawn by the constructor never changes. Once
\* the instance exists, no step changes device model, system version or
\* application version, and getStatus() reports the three values as they
\* are held, one of the profiles the constructor can draw.
C26_ProfileNeverChanges ==
    [][ mtprotoService = "instance" =>
           /\ svc'.deviceModel = svc.deviceModel
           /\ svc'.systemVersion = svc.systemVersion
           /\ svc'.appVersion = svc.appVersion
           /\ ReportedProfile(svc') = ReportedProfile(svc)
           /\ ReportedProfile(svc') \in Profiles
           /\ ReportedProfile(svc') =
                 [ deviceModel |-> svc.deviceModel, systemVersion |-> svc.systemVersion,
                   appVersion |-> svc.appVersion ] ]_vars

\* C26 witness: the constructor drew the second profile; a send has since
\* returned, cleanup() has run at shutdown, and getStatus() still reports
\* that profile.
C26_Witness ==
    /\ ReportedProfile(svc) = Profile2
    /\ exited
    /\ \E r \in Slots \ {0} :
          req[r].op = "send" /\ req[r].pc = "done" /\ req[r].ret.kind = "return"

\* The send q was admitted by the rate limiter and has not ended.
AdmittedInFlight(q) == q.op = "send" /\ q.pc \notin { "idle", "start", "done" }

\* C28: the slot a send consumed at admission is never given back. The
\* step in which an admitted send fails leaves every key's timestamps as
\* they are, the one recorded for this send included; and a send that
\* arrives while its key holds as many timestamps of the last hour as the
\* ceiling counts is rejected, whatever became of the sends that recorded
\* them.
C28_FailedSendKeepsItsSlot ==
    [][ \A r \in Slots \ {0} :
          /\ ( AdmittedInFlight(req[r]) /\ req'[r].pc = "done" /\ req'[r].ret.kind = "throw" )
             => /\ svc'.rateLimits = svc.rateLimits
                /\ Len(svc'.rateLimits[replaceAt(req[r].target)]) > 0
          /\ ( /\ req[r].pc = "idle" /\ req'[r].op = "send" /\ req'[r].valid
               /\ Cardinality(InWindow(svc.rateLimits[replaceAt(req'[r].target)], now))
                     >= RateCeiling )
             => req'[r].pc = "done" /\ req'[r].ret = RateLimitError ]_vars

\* C28 witness: a send was admitted as the last one its key's window had
\* room for and failed after its first collaborator call; within the hour
\* the next send for that key was rejected by the rate limiter.
C28_Witness ==
    \E r1, r2 \in Slots \ {0} :
        /\ r1 # r2
        /\ req[r1].op = "send" /\ req[r2].op = "send"
        /\ replaceAt(req[r1].target) = replaceAt(req[r2].target)
        /\ req[r1].pc = "done" /\ req[r1].ret.kind = "throw"
        /\ Len(req[r1].calls) > 0
        /\ req[r2].pc = "done" /\ req[r2].ret = RateLimitError
        /\ Cardinality(InWindow(svc.rateLimits[replaceAt(req[r1].target)], now)) = RateCeiling


\* ------------------------------------------------------------------------
\* Claims about the probe and about last-activity
\* ------------------------------------------------------------------------

\* The session becomes authenticated in this step.
BecomesAuthenticated == ~svc.isAuthenticated /\ svc'.isAuthenticated

\* C29: initializeMTProto() stores the instance before its probe is
\* answered and probes only when there is no instance. The step that
\* issues users.getFullUser is the one that constructs the instance and
\* assigns the global; while the probe is pending the global holds the
\* instance; a request that starts once the instance exists, the probe
\* pending or failed, issues no probe and gets no initialization error; so
\* the probe is issued at most once, and when no probe is pending the
\* session becomes authenticated through a signIn that succeeds only.
C29_ProbeAtMostOnce ==
    [][ /\ \A r \in Slots :
              (req[r].pc # "probing" /\ req'[r].pc = "probing")
                  => /\ mtprotoService = "null" /\ mtprotoService' = "instance"
                     /\ constructed = 0 /\ constructed' = 1
                     /\ \A r2 \in Slots \ {r} : req'[r2].pc # "probing"
        /\ \A r \in Slots : req'[r].pc = "probing" => mtprotoService' = "instance"
        /\ \A r \in Slots :
              (Starts(r) /\ constructed = 1)
                  => /\ req'[r].pc # "probing"
                     /\ req'[r].ret.message \notin
                           { "Authentication required",
                             "Missing required environment variables" }
        /\ BecomesAuthenticated
              => \/ \E r \in Slots : Answered(r, "probing") /\ req'[r].answer.ok
                 \/ \E r \in Slots :
                       /\ req[r].op = "sign_in" /\ Answered(r, "signingIn")
                       /\ req'[r].answer.ok ]_vars

\* C29 witness: the probe of the only instance failed, and a sign_in
\* request that came later, and made no probe, has authenticated the
\* session.
C29_Witness ==
    /\ constructed = 1
    /\ req[0].pc = "done" /\ req[0].ret.kind = "throw"
    /\ \E r \in Slots \ {0} :
          /\ req[r].op = "sign_in" /\ req[r].pc = "done"
          /\ req[r].calls = << "auth.signIn" >>
          /\ req[r].ret.kind = "return"
    /\ svc.isAuthenticated

LosesAuthentication == svc.isAuthenticated /\ ~svc'.isAuthenticated

\* C31: once the authenticated flag is true, only an initialize() probe
\* answered with AUTH_KEY_UNREGISTERED sets it back to false. Every step in
\* which the flag goes from true to false is the step in which
\* users.getFullUser is answered with that error; the step in which
\* messages.sendMessage is answered with AUTH_KEY_UNREGISTERED or with a ban,
\* the step in which auth.signIn is answered with an error, and cleanup()
\* at shutdown leave the flag as it is; getStatus() reports the flag.
C31_OnlyTheProbeSignsOut ==
    [][ /\ LosesAuthentication
              => \E r \in Slots :
                    /\ Answered(r, "probing")
                    /\ ~req'[r].answer.ok
                    /\ req'[r].answer.error_message = AUTH_KEY_UNREGISTERED
        /\ \A r \in Slots :
              ( /\ req[r].op = "send" /\ Answered(r, "sending")
                /\ ~req'[r].answer.ok
                /\ req'[r].answer.error_message \in { AUTH_KEY_UNREGISTERED, USER_BANNED } )
                  => svc'.isAuthenticated = svc.isAuthenticated
        /\ \A r \in Slots :
              ( Answered(r, "signingIn") /\ ~req'[r].answer.ok )
                  => svc'.isAuthenticated = svc.isAuthenticated
        /\ (~exited /\ exited') => svc'.isAuthenticated = svc.isAuthenticated
        /\ getStatus(svc').authenticated = svc'.isAuthenticated ]_vars

\* C31 witness: on an authenticated session messages.sendMessage was
\* answered with AUTH_KEY_UNREGISTERED, cleanup() has run at shutdown, and
\* getStatus() still reports authenticated = true.
C31_Witness ==
    /\ exited
    /\ svc.inMemoryStorage = EmptyStorage /\ svc.rateLimits = EmptyRateLimits
    /\ getStatus(svc).authenticated
    /\ \E r \in Slots \ {0} :
          /\ req[r].op = "send" /\ req[r].pc = "done"
          /\ req[r].ret.kind = "throw"
          /\ req[r].ret.error_message = AUTH_KEY_UNREGISTERED
          /\ req[r].calls[Len(req[r].calls)] = "messages.sendMessage"


====
